---- MODULE Spec2Model ----
(***************************************************************************)
(* A model of the Nia MCP server (src/src/index.ts): the upstream fetch    *)
(* with its two retry counters, the reconstruction of a streamed answer,   *)
(* and the lookup_codebase_context tool handler that races the fetch       *)
(* against an outer deadline and formats the result.                       *)
(*                                                                         *)
(* A JavaScript string is modelled as the sequence of its characters, each *)
(* character a one-character TLA+ string, so that split, trim, startsWith, *)
(* includes, substring and the regular expressions of the source are       *)
(* computed on the text itself.                                            *)
(*                                                                         *)
(* An action is one run of the code between two awaits: the event that     *)
(* resumes the function (a promise settles, a timer fires) together with   *)
(* everything the code does until it awaits again or returns.  The         *)
(* callback of the progress indicator only logs and is no action.          *)
(***************************************************************************)
EXTENDS Integers, Sequences, FiniteSets, TLC

VARIABLES
    pc,                 \* fetchContextFromNia: where the call is suspended
    retryCount,         \* fetchContextFromNia: let retryCount
    timeoutRetryCount,  \* fetchContextFromNia: let timeoutRetryCount
    lastError,          \* fetchContextFromNia: let lastError (<<>> is null)
    response,           \* the Response of the current attempt (<<>> before any)
    timeoutId,          \* the abort timer of the current attempt
    result,             \* the FetchResult the call returned (<<>> while running)
    attempts,           \* number of fetch() calls issued so far
    waits,              \* the backoff delays awaited so far, in ms, in order
    hpc,                \* tool handler: "idle", "racing" or "returned"
    user_query,         \* tool handler: the argument of the invocation
    outerTimer,         \* tool handler: the timer behind timeoutPromise
    progressInterval,   \* tool handler: the setInterval progress indicator
    payloads,           \* the text payloads the handler returned, in order
    wire,               \* the events the upstream put on the wire (stream bodies)
    debugMode,          \* let debugMode: the --debug option of the process
    stderr,             \* the completion statistics the handler logged, in order
    sent,               \* the user message of the request sent last (<<>> before any)
    request,            \* the rest of the request sent last (<<>> before any)
    globalApiKey,       \* let globalApiKey: the key the process was started with
    sseTransport,       \* SSE server: let sseTransport (0 is null, else a connection)
    connections,        \* SSE server: the connections established, "open" or "closed"
    reply               \* SSE server: the reply to the last HTTP request (<<>> before any)

vars == <<pc, retryCount, timeoutRetryCount, lastError, response, timeoutId,
          result, attempts, waits, hpc, user_query, outerTimer,
          progressInterval, payloads, wire, debugMode, stderr, sent, request,
          globalApiKey, sseTransport, connections, reply>>

\* the state of the SSE server
serverVars == <<sseTransport, connections, reply>>

\* the state of the tool and of the process
toolVars == <<pc, retryCount, timeoutRetryCount, lastError, response, timeoutId,
              result, attempts, waits, hpc, user_query, outerTimer, progressInterval,
              payloads, wire, debugMode, stderr, sent, request, globalApiKey>>

(***************************************************************************)
(* Bounds of the model.                                                    *)
(***************************************************************************)
\* Network attempts one call may issue in the model (the code has no cap).
MaxAttempts == 8
\* Events in one stream body.
MaxEvents == 3

(***************************************************************************)
(* Program constants.                                                      *)
(***************************************************************************)
TOOL_TIMEOUT_MS == 300000
maxRetries == 3
maxTimeoutRetries == 5
maxResponseLength == 10000
FallbackLength == 2000
TimeoutStatus == 408
ErrorStatus == 500
BackoffUnitMs == 1000
BackoffCapMs == 10000

(***************************************************************************)
(* String literals of the source.                                          *)
(***************************************************************************)
\* the grave accent (backtick) character, which a TLA+ string cannot hold
Backtick == "BACKTICK"

S_timeout ==
    <<"t","i","m","e","o","u","t">>

S_abort ==
    <<"a","b","o","r","t">>

AbortedMessage ==
    <<"T","h","i","s"," ","o","p","e","r","a","t","i","o","n"," ","w","a","s"," ","a","b","o",
      "r","t","e","d">>

FetchFailedMessage ==
    <<"f","e","t","c","h"," ","f","a","i","l","e","d">>

SocketTimeoutMessage ==
    <<"s","o","c","k","e","t"," ","t","i","m","e","o","u","t">>

BodyUnusableMessage ==
    <<"B","o","d","y"," ","i","s"," ","u","n","u","s","a","b","l","e">>

TerminatedMessage ==
    <<"t","e","r","m","i","n","a","t","e","d">>

TimedOutHead ==
    <<"R","e","q","u","e","s","t"," ","t","i","m","e","d"," ","o","u","t"," ","a","f","t","e",
      "r"," ">>

TimedOutTail ==
    <<" ","a","t","t","e","m","p","t","s","."," ","T","h","e"," ","N","i","a"," ","A","P","I",
      " ","m","i","g","h","t"," ","b","e"," ","e","x","p","e","r","i","e","n","c","i","n","g",
      " ","h","i","g","h"," ","l","o","a","d"," ","o","r"," ","t","h","e"," ","q","u","e","r",
      "y"," ","i","s"," ","t","o","o"," ","c","o","m","p","l","e","x",".">>

CommErrorHead ==
    <<"E","r","r","o","r"," ","c","o","m","m","u","n","i","c","a","t","i","n","g"," ","w","i",
      "t","h"," ","N","i","a"," ","A","P","I"," ","a","f","t","e","r"," ">>

CommErrorMid ==
    <<" ","a","t","t","e","m","p","t","s",":"," ">>

S_null ==
    <<"n","u","l","l">>

InvalidFormatMessage ==
    <<"E","r","r","o","r",":"," ","I","n","v","a","l","i","d"," ","r","e","s","p","o","n","s",
      "e"," ","f","o","r","m","a","t"," ","f","r","o","m"," ","A","P","I">>

EventStreamType ==
    <<"t","e","x","t","/","e","v","e","n","t","-","s","t","r","e","a","m">>

JsonType ==
    <<"a","p","p","l","i","c","a","t","i","o","n","/","j","s","o","n">>

PlainType ==
    <<"t","e","x","t","/","p","l","a","i","n">>

BlankLine ==
    <<"\n","\n">>

DataPrefix ==
    <<"d","a","t","a",":"," ">>

DoneMarker ==
    <<"d","a","t","a",":"," ","[","D","O","N","E","]">>

SourcesHeader ==
    <<"*","*","S","o","u","r","c","e","s",":","*","*","\n">>

BulletOpen ==
    <<"-"," ",Backtick>>

AuthMessage ==
    <<"A","u","t","h","e","n","t","i","c","a","t","i","o","n"," ","e","r","r","o","r","."," ",
      "P","l","e","a","s","e"," ","m","a","k","e"," ","s","u","r","e"," ","y","o","u","'","r",
      "e"," ","u","s","i","n","g"," ","a"," ","v","a","l","i","d"," ","A","P","I"," ","k","e",
      "y"," ","f","r","o","m"," ","y","o","u","r"," ","N","i","a"," ","a","c","c","o","u","n",
      "t",".">>

QuotaMessage ==
    <<"E","r","r","o","r",","," ","y","o","u"," ","h","a","v","e"," ","e","x","c","e","e","d",
      "e","d"," ","y","o","u","r"," ","q","u","o","t","a","."," ","P","l","e","a","s","e"," ",
      "u","p","g","r","a","d","e"," ","t","o"," ","a"," ","P","r","o"," ","p","l","a","n"," ",
      "f","o","r"," ","u","n","l","i","m","i","t","e","d"," ","u","s","a","g","e",".">>

HttpErrorHead ==
    <<"F","a","i","l","e","d"," ","t","o"," ","r","e","t","r","i","e","v","e"," ","c","o","n",
      "t","e","x","t"," ","f","r","o","m"," ","N","i","a"," ","A","P","I",":"," ","H","T","T",
      "P"," ","e","r","r","o","r"," ">>

HandlerErrorHead ==
    <<"A","n"," ","e","r","r","o","r"," ","o","c","c","u","r","r","e","d"," ","w","h","i","l",
      "e"," ","p","r","o","c","e","s","s","i","n","g"," ","y","o","u","r"," ","r","e","q","u",
      "e","s","t",":"," ">>

OperationTimedOutHead ==
    <<"O","p","e","r","a","t","i","o","n"," ","t","i","m","e","d"," ","o","u","t"," ","a","f",
      "t","e","r"," ">>

OperationTimedOutTail ==
    <<" ","s","e","c","o","n","d","s">>

ContextHead ==
    <<"C","o","n","t","e","x","t"," ","f","o","r"," ","\"">>

ContextTail ==
    <<"\"",":","\n","\n">>

TrimmedNoteHead ==
    <<"\n","\n","[","C","o","n","t","e","n","t"," ","t","r","i","m","m","e","d"," ","f","o","r",
      " ","d","i","s","p","l","a","y","."," ","T","h","e"," ","o","r","i","g","i","n","a","l",
      " ","r","e","s","p","o","n","s","e"," ","w","a","s"," ">>

TrimmedNoteTail ==
    <<" ","c","h","a","r","a","c","t","e","r","s"," ","l","o","n","g",".","]">>

Ellipsis ==
    <<".",".",".">>

SourcesListHead ==
    <<"\n","\n","S","o","u","r","c","e","s",":","\n">>

DeltaOpen ==
    <<"{","\"","c","h","o","i","c","e","s","\"",":","[","{","\"","d","e","l","t","a","\"",":",
      "{","\"","c","o","n","t","e","n","t","\"",":","\"">>

MessageOpen ==
    <<"{","\"","c","h","o","i","c","e","s","\"",":","[","{","\"","m","e","s","s","a","g","e",
      "\"",":","{","\"","c","o","n","t","e","n","t","\"",":","\"">>

ChoiceClose ==
    <<"\"","}","}","]","}">>

RawOpen ==
    <<"{","\"","c","o","n","t","e","n","t","\"",":","\"">>

RawClose ==
    <<"\"","}">>

DeltaClose ==
    <<"\"","}",",","\"","m","e","s","s","a","g","e","\"",":","{","\"","c","o","n","t","e",
      "n","t","\"",":","\"">>

MessageClose ==
    <<"\"","}","}","]",",","\"","c","o","n","t","e","n","t","\"",":","\"">>

EmptyObject ==
    <<"{","}">>

NoMessageObject ==
    <<"{","\"","c","h","o","i","c","e","s","\"",":","[","{","}","]","}">>

NoContentObject ==
    <<"{","\"","c","h","o","i","c","e","s","\"",":","[","{","\"","m","e","s","s","a","g","e",
      "\"",":","{","}","}","]","}">>

BrokenJson ==
    <<"{","\"","c","o","n","t","e","n","t","\"",":">>

PlainBody ==
    <<"h","e","l","l","o">>

(***************************************************************************)
(* The string operations of JavaScript the source uses.                    *)
(***************************************************************************)
Min(a, b) == IF a <= b THEN a ELSE b

SetMin(S) == CHOOSE x \in S : \A y \in S : x <= y

SetMax(S) == CHOOSE x \in S : \A y \in S : x >= y

\* The 1-based positions where lit occurs in s.
Occurrences(s, lit) ==
    { i \in 1..(Len(s) - Len(lit) + 1) : SubSeq(s, i, i + Len(lit) - 1) = lit }

\* s.includes(lit)
Includes(s, lit) == Occurrences(s, lit) /= {}

\* s.startsWith(lit)
StartsWith(s, lit) == Len(s) >= Len(lit) /\ SubSeq(s, 1, Len(lit)) = lit

\* s.substring(from, to), 0-based, to exclusive, clamped to the string
Substring(s, from, to) == SubSeq(s, Min(from, Len(s)) + 1, Min(to, Len(s)))

\* s.substring(from)
SubstringFrom(s, from) == SubSeq(s, Min(from, Len(s)) + 1, Len(s))

\* s.lastIndexOf(lit, from): 0-based index of the last occurrence starting at
\* or before from, -1 when there is none
LastIndexOf(s, lit, from) ==
    LET at == { i \in Occurrences(s, lit) : i - 1 <= from }
    IN  IF at = {} THEN -1 ELSE SetMax(at) - 1

WhiteSpace == {" ", "\n", "\t", "\r"}

\* s.trim()
Trim(s) ==
    LET keep == { i \in 1..Len(s) : s[i] \notin WhiteSpace }
    IN  IF keep = {} THEN <<>> ELSE SubSeq(s, SetMin(keep), SetMax(keep))

\* s.split(sep), sep not empty
RECURSIVE Split(_, _)
Split(s, sep) ==
    LET at == Occurrences(s, sep)
    IN  IF at = {} THEN <<s>>
        ELSE LET i == SetMin(at)
             IN  <<SubSeq(s, 1, i - 1)>> \o Split(SubSeq(s, i + Len(sep), Len(s)), sep)

\* The concatenation of a sequence of strings.
RECURSIVE Concat(_)
Concat(ss) == IF ss = <<>> THEN <<>> ELSE Head(ss) \o Concat(Tail(ss))

\* parts.join(sep)
RECURSIVE Join(_, _)
Join(ss, sep) ==
    IF ss = <<>> THEN <<>>
    ELSE IF Len(ss) = 1 THEN ss[1]
    ELSE ss[1] \o sep \o Join(Tail(ss), sep)

DigitChars == <<"0", "1", "2", "3", "4", "5", "6", "7", "8", "9">>

\* String(n) for a natural number, as in a template literal
RECURSIVE Digits(_)
Digits(n) ==
    IF n < 10 THEN <<DigitChars[n + 1]>>
    ELSE Digits(n \div 10) \o <<DigitChars[(n % 10) + 1]>>

(***************************************************************************)
(* Errors.  A thrown value is a record of the name and the message of the  *)
(* Error object.                                                           *)
(***************************************************************************)
\* fetch() rejecting because controller.abort() ran
AbortError == [name |-> "AbortError", message |-> AbortedMessage]

\* fetch() rejecting on a network failure
FetchFailed == [name |-> "TypeError", message |-> FetchFailedMessage]

\* fetch() rejecting on a network failure whose message names a timeout
SocketTimeout == [name |-> "Error", message |-> SocketTimeoutMessage]

\* reading a body that was already read
BodyUnusable == [name |-> "TypeError", message |-> BodyUnusableMessage]

\* the connection closing while the body is read
Terminated == [name |-> "TypeError", message |-> TerminatedMessage]

\* the errors a fetch() of the model rejects with, other than the abort
NetworkErrors == {FetchFailed, SocketTimeout}

\* IsTimeout with a bug: the message of the error is not looked at
IsTimeout_NameOnly(error) ==
    \/ error.name = "TimeoutError"
    \/ error.name = "AbortError"

\* const isTimeout = ... (every thrown value of the model is an Error)
IsTimeout(error) ==
    \/ error.name = "TimeoutError"
    \/ error.name = "AbortError"
    \/ Includes(error.message, S_timeout)
    \/ Includes(error.message, S_abort)

\* 1000 * timeoutRetryCount
TimeoutBackoff(count) == BackoffUnitMs * count

\* Math.min(1000 * Math.pow(2, retryCount), 10000)
GenericBackoff(count) == Min(BackoffUnitMs * (2 ^ count), BackoffCapMs)

(***************************************************************************)
(* FetchResult.  An optional field that is absent is absent from the       *)
(* record.                                                                 *)
(***************************************************************************)
HasStatus(r) == "statusCode" \in DOMAIN r

HasSources(r) == "sources" \in DOMAIN r

\* StatusResult with a bug: every failed status reported as 500
StatusResult_Fixed(status) == [content |-> <<>>, statusCode |-> ErrorStatus]

\* return { content: "", statusCode: response.status }
StatusResult(status) == [content |-> <<>>, statusCode |-> status]

\* return { content: "Error: Invalid response format from API", statusCode: 500 }
InvalidFormatResult == [content |-> InvalidFormatMessage, statusCode |-> ErrorStatus]

\* return { content: ..., sources: ... }
ContentResult(content, sources) == [content |-> content, sources |-> sources]

\* lastError instanceof Error ? lastError.message : String(lastError)
ErrorText(le) == IF le = <<>> THEN S_null ELSE le[1].message

\* Exhausted with a bug: the results after the loop carry no statusCode
Exhausted_NoStatus(rc, tc, le) ==
    IF tc >= maxTimeoutRetries
    THEN [content |-> TimedOutHead \o Digits(tc) \o TimedOutTail]
    ELSE [content |-> CommErrorHead \o Digits(rc) \o CommErrorMid \o ErrorText(le)]

\* the two returns after the loop
Exhausted(rc, tc, le) ==
    IF tc >= maxTimeoutRetries
    THEN [content |-> TimedOutHead \o Digits(tc) \o TimedOutTail,
          statusCode |-> TimeoutStatus]
    ELSE [content |-> CommErrorHead \o Digits(rc) \o CommErrorMid \o ErrorText(le),
          statusCode |-> ErrorStatus]

\* while (retryCount < maxRetries || timeoutRetryCount < maxTimeoutRetries)
LoopCondition(rc, tc) == rc < maxRetries \/ tc < maxTimeoutRetries

\* if (retryCount >= maxRetries && timeoutRetryCount >= maxTimeoutRetries) break
BreakCondition(rc, tc) == rc >= maxRetries /\ tc >= maxTimeoutRetries

(***************************************************************************)
(* The formatter of the tool handler.                                      *)
(***************************************************************************)
\* TrimContent with a bug: a break at exactly three quarters of the budget
\* is taken as the cut
TrimContent_AtThreshold(content) ==
    IF Len(content) > maxResponseLength
    THEN LET breakPoint == LastIndexOf(content, BlankLine, maxResponseLength)
         IN  IF 4 * breakPoint >= 3 * maxResponseLength
             THEN Substring(content, 0, breakPoint)
                  \o TrimmedNoteHead \o Digits(Len(content)) \o TrimmedNoteTail
             ELSE Substring(content, 0, maxResponseLength) \o Ellipsis
                  \o TrimmedNoteHead \o Digits(Len(content)) \o TrimmedNoteTail
    ELSE content

\* the trimming of a long content
TrimContent(content) ==
    IF Len(content) > maxResponseLength
    THEN LET breakPoint == LastIndexOf(content, BlankLine, maxResponseLength)
         IN  IF 4 * breakPoint > 3 * maxResponseLength
             THEN Substring(content, 0, breakPoint)
                  \o TrimmedNoteHead \o Digits(Len(content)) \o TrimmedNoteTail
             ELSE Substring(content, 0, maxResponseLength) \o Ellipsis
                  \o TrimmedNoteHead \o Digits(Len(content)) \o TrimmedNoteTail
    ELSE content

\* SourceLines with a bug: the citations are listed last to first
SourceLines_Reversed(sources) ==
    Join([i \in 1..Len(sources) |-> <<"-", " ">> \o sources[Len(sources) + 1 - i]],
         <<"\n">>)

\* result.sources.map(src => "- " + src).join('\n')
SourceLines(sources) ==
    Join([i \in 1..Len(sources) |-> <<"-", " ">> \o sources[i]], <<"\n">>)

\* if (result.statusCode): the status is present and not zero
Truthy(r) == HasStatus(r) /\ r.statusCode /= 0

\* the values Date.now() - startTime takes in the model
Durations == {0, 1}

\* the statistics of the completion line: responseTime, contentLength,
\* sourceCount
Stats(responseTime, r) ==
    [responseTime |-> responseTime,
     contentLength |-> Len(r.content),
     sourceCount |-> IF HasSources(r) THEN Len(r.sources) ELSE 0]

\* FormatResult with a bug: status 403 is reported as any other HTTP error
FormatResult_403AsOther(query, r) ==
    IF HasStatus(r) /\ r.statusCode = 401 THEN AuthMessage
    ELSE IF HasStatus(r) /\ r.statusCode = 402 THEN QuotaMessage
    ELSE IF Truthy(r)
         THEN HttpErrorHead \o Digits(r.statusCode)
    ELSE ContextHead \o query \o ContextTail \o TrimContent(r.content)
         \o (IF HasSources(r) /\ Len(r.sources) > 0
             THEN SourcesListHead \o SourceLines(r.sources)
             ELSE <<>>)

\* FormatResult with a bug: with the debug option the payload of a content
\* result states how many payloads were returned before it
FormatResult_Counting(query, r) ==
    IF HasStatus(r) /\ r.statusCode \in {401, 403} THEN AuthMessage
    ELSE IF HasStatus(r) /\ r.statusCode = 402 THEN QuotaMessage
    ELSE IF Truthy(r)
         THEN HttpErrorHead \o Digits(r.statusCode)
    ELSE ContextHead \o query \o ContextTail \o TrimContent(r.content)
         \o (IF HasSources(r) /\ Len(r.sources) > 0
             THEN SourcesListHead \o SourceLines(r.sources)
             ELSE <<>>)
         \o (IF debugMode THEN <<"\n", "#">> \o Digits(Len(payloads)) ELSE <<>>)

\* the text the handler returns for a result of the fetch
FormatResult(query, r) ==
    IF HasStatus(r) /\ r.statusCode \in {401, 403} THEN AuthMessage
    ELSE IF HasStatus(r) /\ r.statusCode = 402 THEN QuotaMessage
    ELSE IF Truthy(r)
         THEN HttpErrorHead \o Digits(r.statusCode)
    ELSE ContextHead \o query \o ContextTail \o TrimContent(r.content)
         \o (IF HasSources(r) /\ Len(r.sources) > 0
             THEN SourcesListHead \o SourceLines(r.sources)
             ELSE <<>>)

\* the text the handler returns when the race rejects with the deadline
DeadlinePayload ==
    HandlerErrorHead \o OperationTimedOutHead
    \o Digits(TOOL_TIMEOUT_MS \div 1000) \o OperationTimedOutTail

(***************************************************************************)
(* JSON.  The texts of the model are the JSON texts below and texts that   *)
(* are not JSON; JsonParse recognises the former and fails on the rest.    *)
(* A parsed object is the record of the fields the source reads from it;   *)
(* a content field that is absent or empty is the empty string (the source *)
(* tests these fields for truthiness only), hasContent tells whether       *)
(* choices[0].message.content is a string.                                 *)
(***************************************************************************)
\* the text of a JSON string holds no raw quote, backslash or line break:
\* a backslash starts an escape
RECURSIVE ValidEscaped(_)
ValidEscaped(s) ==
    IF s = <<>> THEN TRUE
    ELSE IF s[1] = "\\"
         THEN Len(s) >= 2 /\ s[2] \in {"n", "\\", "\""} /\ ValidEscaped(SubSeq(s, 3, Len(s)))
    ELSE s[1] \notin {"\"", "\n"} /\ ValidEscaped(Tail(s))

\* the string a valid JSON string text denotes
RECURSIVE Unescape(_)
Unescape(s) ==
    IF s = <<>> THEN <<>>
    ELSE IF s[1] = "\\"
         THEN <<(IF s[2] = "n" THEN "\n" ELSE s[2])>> \o Unescape(SubSeq(s, 3, Len(s)))
    ELSE <<s[1]>> \o Unescape(Tail(s))

\* the text between a prefix and a suffix of s
Between(s, open, close) == SubSeq(s, Len(open) + 1, Len(s) - Len(close))

\* s is open, a valid string text, close
Wraps(s, open, close) ==
    /\ Len(s) >= Len(open) + Len(close)
    /\ SubSeq(s, 1, Len(open)) = open
    /\ SubSeq(s, Len(s) - Len(close) + 1, Len(s)) = close
    /\ ValidEscaped(Between(s, open, close))

\* s is the object with the three content fields: DeltaOpen, a string text,
\* DeltaClose, a string text, MessageClose, a string text, RawClose; the
\* first DeltaClose and the first MessageClose of s end the first two texts,
\* a string text holding no raw quote
WrapsThree(s) ==
    /\ Len(s) >= Len(DeltaOpen) + Len(DeltaClose) + Len(MessageClose) + Len(RawClose)
    /\ SubSeq(s, 1, Len(DeltaOpen)) = DeltaOpen
    /\ SubSeq(s, Len(s) - Len(RawClose) + 1, Len(s)) = RawClose
    /\ Occurrences(s, DeltaClose) /= {}
    /\ Occurrences(s, MessageClose) /= {}
    /\ LET p == SetMin(Occurrences(s, DeltaClose))
           q == SetMin(Occurrences(s, MessageClose))
       IN  /\ p > Len(DeltaOpen)
           /\ q >= p + Len(DeltaClose)
           /\ q + Len(MessageClose) <= Len(s) - Len(RawClose) + 1
           /\ ValidEscaped(SubSeq(s, Len(DeltaOpen) + 1, p - 1))
           /\ ValidEscaped(SubSeq(s, p + Len(DeltaClose), q - 1))
           /\ ValidEscaped(SubSeq(s, q + Len(MessageClose), Len(s) - Len(RawClose)))

\* the three string texts of such an object
ThreeTexts(s) ==
    LET p == SetMin(Occurrences(s, DeltaClose))
        q == SetMin(Occurrences(s, MessageClose))
    IN  <<SubSeq(s, Len(DeltaOpen) + 1, p - 1),
          SubSeq(s, p + Len(DeltaClose), q - 1),
          SubSeq(s, q + Len(MessageClose), Len(s) - Len(RawClose))>>

NotJson ==
    [ok |-> FALSE, choice |-> FALSE, hasMessage |-> FALSE, hasContent |-> FALSE,
     delta |-> <<>>, message |-> <<>>, content |-> <<>>]

JsonObject(choice, hasMessage, hasContent, delta, message, content) ==
    [ok |-> TRUE, choice |-> choice, hasMessage |-> hasMessage,
     hasContent |-> hasContent, delta |-> delta, message |-> message,
     content |-> content]

\* JSON.parse(text): ok is FALSE where JSON.parse throws a SyntaxError
JsonParse(text) ==
    IF text = EmptyObject
    THEN JsonObject(FALSE, FALSE, FALSE, <<>>, <<>>, <<>>)
    ELSE IF text = NoMessageObject
    THEN JsonObject(TRUE, FALSE, FALSE, <<>>, <<>>, <<>>)
    ELSE IF text = NoContentObject
    THEN JsonObject(TRUE, TRUE, FALSE, <<>>, <<>>, <<>>)
    ELSE IF Wraps(text, DeltaOpen, ChoiceClose)
    THEN JsonObject(TRUE, FALSE, FALSE,
                    Unescape(Between(text, DeltaOpen, ChoiceClose)), <<>>, <<>>)
    ELSE IF Wraps(text, MessageOpen, ChoiceClose)
    THEN JsonObject(TRUE, TRUE, TRUE, <<>>,
                    Unescape(Between(text, MessageOpen, ChoiceClose)), <<>>)
    ELSE IF Wraps(text, RawOpen, RawClose)
    THEN JsonObject(FALSE, FALSE, FALSE, <<>>, <<>>,
                    Unescape(Between(text, RawOpen, RawClose)))
    ELSE IF WrapsThree(text)
    THEN JsonObject(TRUE, TRUE, TRUE, Unescape(ThreeTexts(text)[1]),
                    Unescape(ThreeTexts(text)[2]), Unescape(ThreeTexts(text)[3]))
    ELSE NotJson

(***************************************************************************)
(* The reconstruction of a streamed answer.                                *)
(***************************************************************************)
\* ExtractFragment with a bug: the complete-message format is probed first
ExtractFragment_MessageFirst(jsonObj) ==
    IF jsonObj.message /= <<>> THEN jsonObj.message
    ELSE IF jsonObj.delta /= <<>> THEN jsonObj.delta
    ELSE IF jsonObj.content /= <<>> THEN jsonObj.content
    ELSE <<>>

\* the three formats probed on a parsed event, first match wins
ExtractFragment(jsonObj) ==
    IF jsonObj.delta /= <<>> THEN jsonObj.delta
    ELSE IF jsonObj.message /= <<>> THEN jsonObj.message
    ELSE IF jsonObj.content /= <<>> THEN jsonObj.content
    ELSE <<>>

\* [DONE] marker test of an event
IsDoneEvent(event) == Includes(event, DoneMarker)

\* one turn of the loop over the events: what the event adds to fullContent
EventContribution(event) ==
    IF Trim(event) = <<>> THEN <<>>
    ELSE IF IsDoneEvent(event) THEN <<>>
    ELSE IF StartsWith(event, DataPrefix)
    THEN LET jsonStr == Trim(SubstringFrom(event, Len(DataPrefix)))
             jsonObj == JsonParse(jsonStr)
         IN  IF jsonStr = <<>> THEN <<>>
             ELSE IF ~jsonObj.ok THEN <<>>
             ELSE ExtractFragment(jsonObj)
    ELSE <<>>

\* fullContent after the loop over textResponse.split('\n\n')
ReconstructContent(textResponse) ==
    LET events == Split(textResponse, BlankLine)
    IN  Concat([i \in 1..Len(events) |-> EventContribution(events[i])])

(***************************************************************************)
(* The extraction of the sources.                                          *)
(***************************************************************************)
\* the bullet group of the sourceMatch regular expression, one or more of
\* (dash, space, backtick, characters other than a backtick, backtick, optional
\* line break), anchored at position i (1-based): the position after the
\* bullets matched greedily from i, i itself when no bullet matches
RECURSIVE BulletsEnd(_, _)
BulletsEnd(s, i) ==
    IF i + Len(BulletOpen) - 1 <= Len(s) /\ SubSeq(s, i, i + Len(BulletOpen) - 1) = BulletOpen
    THEN LET from  == i + Len(BulletOpen)
             ticks == { j \in from..Len(s) : s[j] = Backtick }
         IN  IF ticks = {} \/ SetMin(ticks) = from THEN i
             ELSE LET j    == SetMin(ticks)
                      next == IF j + 1 <= Len(s) /\ s[j + 1] = "\n" THEN j + 2 ELSE j + 1
                  IN  BulletsEnd(s, next)
    ELSE i

\* content.match(...) with the Sources regular expression: <<group 1>> of
\* the leftmost match, <<>> when the regular expression does not match
SourceMatch(content) ==
    LET starts == { p \in Occurrences(content, SourcesHeader) :
                      BulletsEnd(content, p + Len(SourcesHeader)) > p + Len(SourcesHeader) }
    IN  IF starts = {} THEN <<>>
        ELSE LET from == SetMin(starts) + Len(SourcesHeader)
             IN  <<SubSeq(content, from, BulletsEnd(content, from) - 1)>>

\* the loop over sourceRegex.exec(sourceText): group 1 (the characters
\* between the backticks) of every match, scanning from position i
RECURSIVE SourceRegexAll(_, _)
SourceRegexAll(sourceText, i) ==
    LET opens == { p \in Occurrences(sourceText, BulletOpen) :
                     /\ p >= i
                     /\ \E j \in (p + Len(BulletOpen) + 1)..Len(sourceText) :
                            /\ sourceText[j] = Backtick
                            /\ \A k \in (p + Len(BulletOpen))..(j - 1) : sourceText[k] /= Backtick }
    IN  IF opens = {} THEN <<>>
        ELSE LET p    == SetMin(opens)
                 from == p + Len(BulletOpen)
                 j    == SetMin({ k \in from..Len(sourceText) : sourceText[k] = Backtick })
             IN  <<SubSeq(sourceText, from, j - 1)>> \o SourceRegexAll(sourceText, j + 1)

\* the sources pushed for a content
ExtractSources(content) ==
    LET sourceMatch == SourceMatch(content)
    IN  IF sourceMatch = <<>> THEN <<>> ELSE SourceRegexAll(sourceMatch[1], 1)

\* the result of the event-stream branch for a body text
StreamResult(textResponse) ==
    LET fullContent == ReconstructContent(textResponse)
    IN  ContentResult(fullContent, ExtractSources(fullContent))

(***************************************************************************)
(* The upstream: what it may answer.  A stream body is the serialisation   *)
(* of a list of events; an event carries a text fragment in one of the     *)
(* three formats, or is the done marker, or carries a payload that is not  *)
(* JSON.                                                                    *)
(***************************************************************************)
\* JSON.stringify of a string, without the quotes
RECURSIVE Escape(_)
Escape(s) ==
    IF s = <<>> THEN <<>>
    ELSE (IF s[1] = "\n" THEN <<"\\", "n">>
          ELSE IF s[1] \in {"\"", "\\"} THEN <<"\\", s[1]>>
          ELSE <<s[1]>>) \o Escape(Tail(s))

Event(kind, text) == [kind |-> kind, text |-> text]

\* an event whose object has the three content fields, each a string that
\* may be empty
EventOfThree(delta, message, content) ==
    [kind |-> "three", text |-> <<>>, delta |-> delta, message |-> message,
     content |-> content]

\* the wire text of one event, without the blank line that ends it
EventText(e) ==
    IF e.kind = "done" THEN DoneMarker
    ELSE IF e.kind = "delta" THEN DataPrefix \o DeltaOpen \o Escape(e.text) \o ChoiceClose
    ELSE IF e.kind = "message" THEN DataPrefix \o MessageOpen \o Escape(e.text) \o ChoiceClose
    ELSE IF e.kind = "raw" THEN DataPrefix \o RawOpen \o Escape(e.text) \o RawClose
    ELSE IF e.kind = "three"
    THEN DataPrefix \o DeltaOpen \o Escape(e.delta) \o DeltaClose \o Escape(e.message)
         \o MessageClose \o Escape(e.content) \o RawClose
    ELSE DataPrefix \o BrokenJson

\* the body of a stream of events
Serialize(events) ==
    Concat([i \in 1..Len(events) |-> EventText(events[i]) \o BlankLine])

\* the text fragments the events of the model carry
FragA == <<"a">>

FragB == <<"b">>

FragC == <<"c">>

\* a Sources section citing x, one citing y, and one more bullet citing y
SectionX == SourcesHeader \o BulletOpen \o <<"x", Backtick, "\n">>

SectionY == SourcesHeader \o BulletOpen \o <<"y", Backtick, "\n">>

BulletY == BulletOpen \o <<"y", Backtick, "\n">>

\* the events a stream of the model is made of; one of them carries a
\* fragment that quotes the done marker
StreamEvents ==
    { Event("delta", FragA), Event("message", FragB), Event("raw", FragC),
      Event("malformed", <<>>), Event("done", <<>>), Event("raw", DoneMarker),
      Event("delta", SectionX), Event("message", SectionY), Event("raw", BulletY) }

\* the lists of at most n events
EventLists(n) == UNION { [1..k -> StreamEvents] : k \in 0..n }

\* what the upstream answers to one attempt: status line, content type, body
Answer(status, contentType, hasBody, body, events) ==
    [status |-> status, contentType |-> contentType, hasBody |-> hasBody,
     body |-> body, events |-> events]

StreamAnswer(events) == Answer(200, EventStreamType, TRUE, Serialize(events), events)

\* the answers of the retry model: error statuses, two streams, JSON bodies
\* with and without the chat-completion shape, a body that is not JSON, and
\* a response without a body
Answers ==
    { Answer(s, JsonType, TRUE, EmptyObject, <<>>) : s \in {401, 402, 403, 404} }
    \cup { StreamAnswer(<<Event("delta", FragA), Event("done", <<>>)>>),
           StreamAnswer(<<Event("message", SectionX), Event("malformed", <<>>),
                          Event("raw", BulletY)>>) }
    \cup { Answer(200, JsonType, TRUE, MessageOpen \o Escape(SectionX) \o ChoiceClose, <<>>),
           Answer(200, JsonType, TRUE, EmptyObject, <<>>),
           Answer(200, JsonType, TRUE, NoContentObject, <<>>),
           Answer(200, PlainType, TRUE, PlainBody, <<>>),
           Answer(204, <<>>, FALSE, <<>>, <<>>) }

\* the queries of the model
Queries == { <<"h", "o", "w">>, <<"f", "i", "x">> }

(***************************************************************************)
(* The user message of the request.                                        *)
(***************************************************************************)
UpperCase == <<"A","B","C","D","E","F","G","H","I","J","K","L","M","N","O","P","Q","R",
               "S","T","U","V","W","X","Y","Z">>

LowerCase == <<"a","b","c","d","e","f","g","h","i","j","k","l","m","n","o","p","q","r",
               "s","t","u","v","w","x","y","z">>

\* ToLowerCase with a bug: the text is left as it is
ToLowerCase_Identity(s) == s

\* s.toLowerCase() on the letters of the model's texts
ToLowerCase(s) ==
    [i \in 1..Len(s) |->
        IF \E k \in 1..Len(UpperCase) : UpperCase[k] = s[i]
        THEN LowerCase[CHOOSE k \in 1..Len(UpperCase) : UpperCase[k] = s[i]]
        ELSE s[i]]

\* the substrings that make the query an overview question
Triggers ==
    << <<"r","e","p","o">>,
       <<"r","e","p","o","s","i","t","o","r","y">>,
       <<"w","h","a","t">>,
       <<"h","o","w">> >>

ElaborationSuffix ==
    <<" ","-"," ","P","l","e","a","s","e"," ","p","r","o","v","i","d","e"," ","d","e","t",
      "a","i","l","e","d"," ","i","n","f","o","r","m","a","t","i","o","n"," ","a","b","o",
      "u","t"," ","t","h","e"," ","r","e","p","o","s","i","t","o","r","y","'","s"," ","p",
      "u","r","p","o","s","e",","," ","a","r","c","h","i","t","e","c","t","u","r","e",",",
      " ","a","n","d"," ","k","e","y"," ","c","o","m","p","o","n","e","n","t","s",".">>

\* the keys a process of the model is started with
ApiKeys == {"key-1", "key-2"}

\* the request but for its user message: the Authorization header and the
\* model, stream and max_tokens fields of the body
Request(apiKey) ==
    [authorization |-> <<"Bearer", apiKey>>,
     model |-> "gpt-4o",
     stream |-> TRUE,
     max_tokens |-> 1000]

\* const enhancedQuery
EnhancedQuery(query) ==
    IF \E k \in 1..Len(Triggers) : Includes(ToLowerCase(query), Triggers[k])
    THEN query \o ElaborationSuffix
    ELSE query

(***************************************************************************)
(* The state machine.                                                      *)
(***************************************************************************)
\* response.ok
Ok(status) == status >= 200 /\ status <= 299

\* contentType && contentType.includes('text/event-stream')
IsEventStream(contentType) == contentType /= <<>> /\ Includes(contentType, EventStreamType)

\* HandlerCatches with a bug: no catch around the race, the rejection leaves
\* the handler
HandlerRethrows(error) ==
    /\ hpc' = "rejected"
    /\ progressInterval' = "cleared"
    /\ UNCHANGED <<payloads, stderr>>

\* the handler's catch: the race rejected with error
HandlerCatches(error) ==
    /\ hpc' = "returned"
    /\ progressInterval' = "cleared"
    /\ payloads' = Append(payloads, HandlerErrorHead \o error.message)
    /\ UNCHANGED stderr

\* the handler resumes with the result of the fetch; with the debug option
\* it logs the statistics of a result without status, the response time
\* being the difference of two readings of the clock
HandlerFormats(r) ==
    /\ hpc' = "returned"
    /\ progressInterval' = "cleared"
    /\ payloads' = Append(payloads, FormatResult(user_query, r))
    /\ IF debugMode /\ ~Truthy(r)
       THEN \E responseTime \in Durations :
                stderr' = Append(stderr, Stats(responseTime, r))
       ELSE UNCHANGED stderr

\* the promise of fetchContextFromNia settles; a handler still waiting on
\* the race resumes in the same turn
Settle(outcome, tid) ==
    /\ pc' = IF outcome.kind = "return" THEN "returned" ELSE "rejected"
    /\ result' = IF outcome.kind = "return" THEN <<outcome.value>> ELSE <<>>
    /\ timeoutId' = tid
    /\ IF hpc = "racing"
       THEN IF outcome.kind = "return"
            THEN HandlerFormats(outcome.value)
            ELSE HandlerCatches(outcome.error)
       ELSE UNCHANGED <<hpc, progressInterval, payloads, stderr>>
    /\ UNCHANGED <<attempts, waits, sent, request>>

Returns(r) == [kind |-> "return", value |-> r]

\* AfterLoop with a bug: the last error is thrown when the retries ran out
AfterLoop_Throws(rc, tc, le) ==
    [kind |-> "throw",
     error |-> [name |-> "Error",
                message |-> CommErrorHead \o Digits(rc) \o CommErrorMid \o ErrorText(le)]]

\* the code after the loop
AfterLoop(rc, tc, le) == Returns(Exhausted(rc, tc, le))

\* await new Promise(resolve => setTimeout(resolve, backoffMs))
Backoff(backoffMs, tid) ==
    /\ pc' = "await_backoff"
    /\ waits' = Append(waits, backoffMs)
    /\ timeoutId' = tid
    /\ UNCHANGED <<result, hpc, progressInterval, payloads, attempts, stderr, sent,
                   request>>

\* Attempt with a bug: a retry enhances the message of the request before it
Attempt_Reenhance ==
    /\ attempts < MaxAttempts
    /\ pc' = "await_fetch"
    /\ attempts' = attempts + 1
    /\ timeoutId' = "pending"
    /\ sent' = EnhancedQuery(sent)
    /\ request' = <<Request(globalApiKey)>>
    /\ UNCHANGED <<result, hpc, progressInterval, payloads, waits, stderr>>

\* one more turn of the loop up to its await fetch(...): the abort timer is
\* set and the request is sent
Attempt ==
    /\ attempts < MaxAttempts
    /\ pc' = "await_fetch"
    /\ attempts' = attempts + 1
    /\ timeoutId' = "pending"
    /\ sent' = EnhancedQuery(user_query)
    /\ request' = <<Request(globalApiKey)>>
    /\ UNCHANGED <<result, hpc, progressInterval, payloads, waits, stderr>>

\* the test of the while loop with the counters rc and tc
LoopTop(rc, tc, le, tid) ==
    IF LoopCondition(rc, tc) THEN Attempt ELSE Settle(AfterLoop(rc, tc, le), tid)

\* Catch with a bug: no finally, the abort timer is left as it was when the
\* error was thrown
Catch_NoFinally(error, tid) ==
    LET isTimeout == IsTimeout(error)
        tc == IF isTimeout THEN timeoutRetryCount + 1 ELSE timeoutRetryCount
        rc == IF isTimeout THEN retryCount ELSE retryCount + 1
        le == IF isTimeout THEN lastError ELSE <<error>>
    IN  /\ timeoutRetryCount' = tc
        /\ retryCount' = rc
        /\ lastError' = le
        /\ IF isTimeout /\ tc < maxTimeoutRetries
           THEN Backoff(TimeoutBackoff(tc), timeoutId)
           ELSE IF ~isTimeout /\ rc < maxRetries
           THEN Backoff(GenericBackoff(rc), timeoutId)
           ELSE IF BreakCondition(rc, tc)
           THEN Settle(AfterLoop(rc, tc, le), timeoutId)
           ELSE LoopTop(rc, tc, le, timeoutId)

\* the catch block of the loop for an error thrown by the attempt; tid is
\* the abort timer after finally { clearTimeout(timeoutId) }
Catch(error, tid) ==
    LET isTimeout == IsTimeout(error)
        tc == IF isTimeout THEN timeoutRetryCount + 1 ELSE timeoutRetryCount
        rc == IF isTimeout THEN retryCount ELSE retryCount + 1
        le == IF isTimeout THEN lastError ELSE <<error>>
    IN  /\ timeoutRetryCount' = tc
        /\ retryCount' = rc
        /\ lastError' = le
        /\ IF isTimeout /\ tc < maxTimeoutRetries
           THEN Backoff(TimeoutBackoff(tc), tid)
           ELSE IF ~isTimeout /\ rc < maxRetries
           THEN Backoff(GenericBackoff(rc), tid)
           ELSE IF BreakCondition(rc, tc)
           THEN Settle(AfterLoop(rc, tc, le), tid)
           ELSE LoopTop(rc, tc, le, tid)

Init ==
    /\ pc = "idle"
    /\ retryCount = 0
    /\ timeoutRetryCount = 0
    /\ lastError = <<>>
    /\ response = <<>>
    /\ timeoutId = "none"
    /\ result = <<>>
    /\ attempts = 0
    /\ waits = <<>>
    /\ hpc = "idle"
    /\ user_query = <<>>
    /\ outerTimer = "none"
    /\ progressInterval = "none"
    /\ payloads = <<>>
    /\ wire = <<>>
    /\ debugMode \in BOOLEAN
    /\ stderr = <<>>
    /\ sent = <<>>
    /\ globalApiKey \in ApiKeys
    /\ request = <<>>
    /\ sseTransport = 0
    /\ connections = <<>>
    /\ reply = <<>>

\* the tool is invoked: the handler starts the progress indicator, calls
\* fetchContextFromNia, which runs up to its first await fetch(...), sets the
\* outer deadline and awaits the race
Invoke(query) ==
    /\ hpc = "idle"
    /\ hpc' = "racing"
    /\ user_query' = query
    /\ progressInterval' = "active"
    /\ outerTimer' = "pending"
    /\ pc' = "await_fetch"
    /\ attempts' = attempts + 1
    /\ timeoutId' = "pending"
    /\ sent' = EnhancedQuery(query)
    /\ request' = <<Request(globalApiKey)>>
    /\ UNCHANGED <<retryCount, timeoutRetryCount, lastError, response, result, waits,
                   payloads, wire, debugMode, globalApiKey, serverVars, stderr>>

\* fetch() resolves with the response headers of answer a
FetchResolves(a) ==
    /\ pc = "await_fetch"
    /\ wire' = a.events
    /\ IF ~Ok(a.status)
       THEN /\ response' = <<[status |-> a.status, contentType |-> a.contentType,
                              hasBody |-> a.hasBody, body |-> a.body,
                              bodyUsed |-> FALSE]>>
            /\ Settle(Returns(StatusResult(a.status)), "cleared")
       ELSE /\ response' = <<[status |-> a.status, contentType |-> a.contentType,
                              hasBody |-> a.hasBody, body |-> a.body,
                              bodyUsed |-> a.hasBody]>>
            /\ pc' = IF IsEventStream(a.contentType) THEN "await_text" ELSE "await_json"
            /\ timeoutId' = "cleared"
            /\ UNCHANGED <<result, attempts, waits, hpc, progressInterval, payloads,
                           stderr, sent, request>>
    /\ UNCHANGED <<retryCount, timeoutRetryCount, lastError, user_query, outerTimer,
                   debugMode, globalApiKey, serverVars>>

\* fetch() rejects with a network error
FetchRejects(error) ==
    /\ pc = "await_fetch"
    /\ Catch(error, "cleared")
    /\ UNCHANGED <<response, user_query, outerTimer, debugMode, globalApiKey,
                   serverVars, wire>>

\* the abort timer fires: controller.abort() makes fetch() reject
AbortTimerFires ==
    /\ pc = "await_fetch"
    /\ timeoutId = "pending"
    /\ Catch(AbortError, "fired")
    /\ UNCHANGED <<response, user_query, outerTimer, debugMode, globalApiKey,
                   serverVars, wire>>

\* response.text() of the event-stream branch resolves: the events are
\* processed and the result returned
TextResolves ==
    /\ pc = "await_text"
    /\ Settle(Returns(StreamResult(response[1].body)), timeoutId)
    /\ UNCHANGED <<retryCount, timeoutRetryCount, lastError, response, user_query,
                   outerTimer, debugMode, globalApiKey, serverVars, wire>>

\* response.text() of the event-stream branch rejects: the connection
\* closed while the body was read
TextRejects ==
    /\ pc = "await_text"
    /\ Catch(Terminated, timeoutId)
    /\ UNCHANGED <<response, user_query, outerTimer, debugMode, globalApiKey,
                   serverVars, wire>>

\* catch (jsonError): response.text() of a response whose body was already
\* read rejects, of a response without a body resolves with the empty text
PlainTextFallback ==
    IF response[1].hasBody /\ response[1].bodyUsed
    THEN Catch(BodyUnusable, timeoutId)
    ELSE /\ Settle(Returns(ContentResult(Substring(response[1].body, 0, FallbackLength),
                                         <<>>)), timeoutId)
         /\ UNCHANGED <<retryCount, timeoutRetryCount, lastError>>

\* response.json() settles after the whole body was read: the JSON branch
JsonResolves ==
    /\ pc = "await_json"
    /\ LET data == JsonParse(response[1].body)
       IN  IF data.ok /\ ~(data.choice /\ data.hasMessage)
           THEN /\ Settle(Returns(InvalidFormatResult), timeoutId)
                /\ UNCHANGED <<retryCount, timeoutRetryCount, lastError>>
           ELSE IF data.ok /\ data.hasContent
           THEN /\ Settle(Returns(ContentResult(data.message,
                                                ExtractSources(data.message))),
                          timeoutId)
                /\ UNCHANGED <<retryCount, timeoutRetryCount, lastError>>
           ELSE PlainTextFallback
    /\ UNCHANGED <<response, user_query, outerTimer, debugMode, globalApiKey,
                   serverVars, wire>>

\* response.json() rejects because the connection closed while the body was
\* read: the rejection is caught by catch (jsonError) as well
JsonRejects ==
    /\ pc = "await_json"
    /\ response[1].hasBody
    /\ PlainTextFallback
    /\ UNCHANGED <<response, user_query, outerTimer, debugMode, globalApiKey,
                   serverVars, wire>>

\* the backoff timer fires: the loop goes on
BackoffElapses ==
    /\ pc = "await_backoff"
    /\ LoopTop(retryCount, timeoutRetryCount, lastError, timeoutId)
    /\ UNCHANGED <<retryCount, timeoutRetryCount, lastError, response, user_query,
                   outerTimer, debugMode, globalApiKey, serverVars, wire>>

\* the outer deadline fires: timeoutPromise rejects; a handler still waiting
\* on the race resumes in its catch
OuterTimerFires ==
    /\ outerTimer = "pending"
    /\ outerTimer' = "fired"
    /\ IF hpc = "racing"
       THEN HandlerCatches([name |-> "Error",
                            message |-> OperationTimedOutHead
                                        \o Digits(TOOL_TIMEOUT_MS \div 1000)
                                        \o OperationTimedOutTail])
       ELSE UNCHANGED <<hpc, progressInterval, payloads, stderr>>
    /\ UNCHANGED <<pc, retryCount, timeoutRetryCount, lastError, response, timeoutId,
                   result, attempts, waits, user_query, wire, debugMode, globalApiKey,
                   serverVars, sent, request>>

Next ==
    \/ \E query \in Queries : Invoke(query)
    \/ \E a \in Answers : FetchResolves(a)
    \/ \E error \in NetworkErrors : FetchRejects(error)
    \/ AbortTimerFires
    \/ TextResolves
    \/ TextRejects
    \/ JsonResolves
    \/ JsonRejects
    \/ BackoffElapses
    \/ OuterTimerFires

Spec == Init /\ [][Next]_vars

\* the event loop runs a timer that is due: the outer deadline fires
LiveSpec == Spec /\ WF_vars(OuterTimerFires)

(***************************************************************************)
(* The reconstruction alone: the call has received the headers of an       *)
(* event-stream response on its first attempt and awaits the body, which   *)
(* is the serialisation of any list of at most MaxEvents events.           *)
(***************************************************************************)
InitStream ==
    \E query \in Queries, events \in EventLists(MaxEvents) :
        /\ debugMode \in BOOLEAN
        /\ stderr = <<>>
        /\ sent = EnhancedQuery(query)
        /\ globalApiKey = CHOOSE key \in ApiKeys : TRUE
        /\ request = <<Request(globalApiKey)>>
        /\ sseTransport = 0
        /\ connections = <<>>
        /\ reply = <<>>
        /\ pc = "await_text"
        /\ retryCount = 0
        /\ timeoutRetryCount = 0
        /\ lastError = <<>>
        /\ response = <<[status |-> 200, contentType |-> EventStreamType,
                         hasBody |-> TRUE, body |-> Serialize(events),
                         bodyUsed |-> TRUE]>>
        /\ timeoutId = "cleared"
        /\ result = <<>>
        /\ attempts = 1
        /\ waits = <<>>
        /\ hpc = "racing"
        /\ user_query = query
        /\ outerTimer = "pending"
        /\ progressInterval = "active"
        /\ payloads = <<>>
        /\ wire = events

NextStream == TextResolves

SpecStream == InitStream /\ [][NextStream]_vars

(***************************************************************************)
(* The claims.                                                             *)
(***************************************************************************)
\* no attempt of the call has received a response
NoResponseYet == response = <<>>

\* the delays of a linear backoff: 1000, 2000, ... for n waits
LinearWaits(n) == [i \in 1..n |-> BackoffUnitMs * i]

\* C1: when every attempt fails with a timeout-class error, the call makes
\* exactly maxTimeoutRetries attempts, waits 1000, 2000, 3000, 4000 ms between
\* them and returns statusCode 408 with a content stating 5 attempts.  Stated
\* on the states where maxTimeoutRetries timeouts and nothing else happened.
C1_TimeoutsEndWith408 ==
    (NoResponseYet /\ retryCount = 0 /\ timeoutRetryCount >= maxTimeoutRetries)
    => /\ pc = "returned"
       /\ attempts = maxTimeoutRetries
       /\ waits = LinearWaits(maxTimeoutRetries - 1)
       /\ result = <<[content |-> TimedOutHead \o Digits(maxTimeoutRetries) \o TimedOutTail,
                      statusCode |-> TimeoutStatus]>>

\* C2: when every attempt fails with a generic-class error, the call returns
\* after maxRetries attempts statusCode 500 with the content "Error
\* communicating with Nia API after 3 attempts: <last message>".  Stated on
\* the states where maxRetries generic errors and nothing else happened.
C2_GenericErrorsEndWith500 ==
    (NoResponseYet /\ timeoutRetryCount = 0 /\ retryCount >= maxRetries)
    => /\ pc = "returned"
       /\ attempts = maxRetries
       /\ result = <<[content |-> CommErrorHead \o Digits(maxRetries) \o CommErrorMid
                                  \o ErrorText(lastError),
                      statusCode |-> ErrorStatus]>>

\* C3: under any interleaving of the two error classes, a step that brings
\* either counter to its bound issues no further network attempt: the loop
\* stops there, whatever is left of the other counter's budget.
C3_StopsAtEitherBound ==
    [][ ( \/ (retryCount < maxRetries /\ retryCount' >= maxRetries)
          \/ (timeoutRetryCount < maxTimeoutRetries
              /\ timeoutRetryCount' >= maxTimeoutRetries) )
        => (attempts' = attempts /\ pc' = "returned") ]_vars

\* C4: every invocation of the tool returns exactly one text payload,
\* whatever the upstream does, provided the outer deadline timer fires once
\* it is set: the handler never rejects, never returns twice, and an
\* invocation waiting on the race eventually has returned its payload.
C4_AlwaysOnePayload ==
    /\ [](hpc /= "rejected" /\ Len(payloads) <= 1)
    /\ [](hpc = "returned" => Len(payloads) = 1)
    /\ (hpc = "racing") ~> (hpc = "returned" /\ Len(payloads) = 1)

\* C4, its case: the upstream never answered the first attempt and the
\* handler returned the payload of the deadline
C4_Witness ==
    /\ hpc = "returned"
    /\ payloads = <<DeadlinePayload>>
    /\ pc = "await_fetch"
    /\ attempts = 1
    /\ NoResponseYet

\* C5: fetchContextFromNia never rejects: whenever the call has completed,
\* it has returned one FetchResult (a record with a content).
C5_NeverRejects ==
    /\ pc /= "rejected"
    /\ pc = "returned" => (Len(result) = 1 /\ "content" \in DOMAIN result[1])

\* C5, its case: the call completed after errors of both classes used up
\* both retry budgets
C5_Witness ==
    /\ pc = "returned"
    /\ retryCount >= maxRetries
    /\ timeoutRetryCount >= maxTimeoutRetries
    /\ Len(result) = 1

\* a step in which the awaited fetch() resolves with a non-success status
NonOkReceived ==
    /\ pc = "await_fetch"
    /\ response' /= response
    /\ response' /= <<>>
    /\ ~(response'[1].status \in 200..299)

\* C6: an attempt that receives a non-success status makes the call return
\* at once content "" and that status, with no further attempt, no backoff
\* and both counters unchanged; once returned the call does nothing more; a
\* 401 on the first attempt leaves both counters at zero.
C6_StatusShortCircuits ==
    /\ [][ NonOkReceived
           => /\ pc' = "returned"
              /\ result' = <<[content |-> <<>>, statusCode |-> response'[1].status]>>
              /\ attempts' = attempts
              /\ waits' = waits
              /\ retryCount' = retryCount
              /\ timeoutRetryCount' = timeoutRetryCount ]_vars
    /\ [][ pc = "returned"
           => /\ pc' = "returned"
              /\ result' = result
              /\ attempts' = attempts
              /\ waits' = waits
              /\ retryCount' = retryCount
              /\ timeoutRetryCount' = timeoutRetryCount ]_vars
    /\ []( (pc = "returned" /\ attempts = 1 /\ response /= <<>>
            /\ response[1].status = 401)
           => (retryCount = 0 /\ timeoutRetryCount = 0 /\ waits = <<>>) )

\* C6, its case: a 401 received on a later attempt, after retries
C6_Witness ==
    /\ pc = "returned"
    /\ attempts > 1
    /\ retryCount + timeoutRetryCount > 0
    /\ response /= <<>>
    /\ response[1].status = 401
    /\ result = <<[content |-> <<>>, statusCode |-> 401]>>

\* the call returned because the upstream answered with a non-success status
ReturnedOnStatus ==
    response /= <<>> /\ ~(response[1].status \in 200..299)

\* the call returned because the retries ran out
ReturnedOnExhaustion ==
    ~ReturnedOnStatus /\ retryCount >= maxRetries /\ timeoutRetryCount >= maxTimeoutRetries

\* the call returned because a 2xx non-stream body parsed as JSON without
\* the choices[0].message shape
ReturnedOnInvalidShape ==
    /\ ~ReturnedOnStatus
    /\ ~ReturnedOnExhaustion
    /\ response /= <<>>
    /\ ~IsEventStream(response[1].contentType)
    /\ JsonParse(response[1].body).ok
    /\ ~(JsonParse(response[1].body).choice /\ JsonParse(response[1].body).hasMessage)

\* C7 as claimed: a returned FetchResult carries a statusCode only when the
\* upstream answered with a non-success status; results for a successful
\* response and results after retry exhaustion carry none.
C7_StatusOnlyFromUpstream ==
    (pc = "returned" /\ HasStatus(result[1]))
    => (ReturnedOnStatus /\ result[1].statusCode = response[1].status)

\* C7 as amended: a returned FetchResult carries a statusCode exactly when
\* the upstream answered with a non-success status (that status), when the
\* retries ran out (408), or when a 2xx non-stream body parsed as JSON
\* without the choices[0].message shape (500); every other result carries
\* none.
C7_StatusCases ==
    pc = "returned"
    => /\ HasStatus(result[1])
          <=> (ReturnedOnStatus \/ ReturnedOnExhaustion \/ ReturnedOnInvalidShape)
       /\ ReturnedOnStatus => result[1].statusCode = response[1].status
       /\ ReturnedOnExhaustion => result[1].statusCode = TimeoutStatus
       /\ ReturnedOnInvalidShape => result[1].statusCode = ErrorStatus

\* C7, its case: the retries ran out and the result carries 408
C7_Witness ==
    /\ pc = "returned"
    /\ ReturnedOnExhaustion
    /\ HasStatus(result[1])
    /\ result[1].statusCode = TimeoutStatus

\* C8: when response.json() of a 2xx non-stream response settles on a body
\* that is not JSON, the call returns on that attempt the first 2000
\* characters of the body with no sources and no statusCode, and no retry
\* counter moves.
C8_PlainTextFallback ==
    [][ ( /\ pc = "await_json"
          /\ pc' /= "await_json"
          /\ ~JsonParse(response[1].body).ok )
        => /\ pc' = "returned"
           /\ result' = <<[content |-> Substring(response[1].body, 0, FallbackLength),
                           sources |-> <<>>]>>
           /\ retryCount' = retryCount
           /\ timeoutRetryCount' = timeoutRetryCount
           /\ attempts' = attempts
           /\ waits' = waits ]_vars

\* the fragment a well-formed data event carries; the done marker and an
\* event whose payload is not JSON carry none
WireFragment(e) == IF e.kind \in {"delta", "message", "raw"} THEN e.text ELSE <<>>

\* C9: the content reconstructed from a stream body is the concatenation, in
\* event order, of the fragments of its well-formed data events; a payload
\* that is not JSON contributes nothing and leaves the other fragments.
C9_ContentIsConcatenation ==
    (pc = "returned" /\ response /= <<>> /\ IsEventStream(response[1].contentType)
     /\ (response[1].status \in 200..299))
    => result[1].content = Concat([i \in 1..Len(wire) |-> WireFragment(wire[i])])

\* the identifiers a Sources section may cite in the model, in lists
Identifiers == { <<"x">>, <<"y">> }

IdLists == UNION { [1..k -> Identifiers] : k \in 1..MaxEvents }

\* a Sources section citing ids: the header line, then one bullet per line
SectionOf(ids) ==
    SourcesHeader
    \o Concat([i \in 1..Len(ids) |-> <<"-", " ", Backtick>> \o ids[i] \o <<Backtick, "\n">>])

\* content ends in the section s, which starts a line
EndsInSection(content, s) ==
    /\ Len(content) >= Len(s)
    /\ SubSeq(content, Len(content) - Len(s) + 1, Len(content)) = s
    /\ (Len(content) = Len(s) \/ content[Len(content) - Len(s)] = "\n")

\* C10: when the reconstructed content ends in a Sources section, the
\* returned sources are the identifiers of that section in order, duplicates
\* kept, and the content still holds the section.
C10_SourcesOfTrailingSection ==
    (pc = "returned" /\ response /= <<>> /\ IsEventStream(response[1].contentType)
     /\ (response[1].status \in 200..299))
    => \A ids \in IdLists :
          EndsInSection(result[1].content, SectionOf(ids))
          => (result[1].sources = ids /\ Includes(result[1].content, SectionOf(ids)))

(***************************************************************************)
(* The formatter alone: the call of fetchContextFromNia has just returned  *)
(* a result and the handler, suspended on the race, has not resumed yet.   *)
(* The results are those the call can return: a status result, or a        *)
(* content with the sources extracted from it.                             *)
(***************************************************************************)
\* Invocations with the same query and the same result.
MaxRuns == 2

\* a text of n characters with a paragraph break at each of the (0-based)
\* indices of breaks
Text(n, breaks) ==
    [i \in 1..n |-> IF \E b \in breaks : i - 1 \in {b, b + 1} THEN "\n" ELSE "a"]

\* texts within the display budget
ShortBodies == { <<>>, FragA, FragA \o BlankLine \o FragB \o <<"\n">> }

\* texts at and over the display budget, with paragraph breaks around the
\* budget and around three quarters of it
LongBodies ==
    LET budget  == maxResponseLength
        quarter == (3 * maxResponseLength) \div 4
    IN  { Text(n, breaks) :
            n \in {budget, budget + 1, budget + 2, budget + 2000},
            breaks \in { {}, {100}, {quarter - 1}, {quarter}, {quarter + 1},
                         {budget - 500}, {budget - 1}, {budget},
                         {quarter + 100, budget - 1000},
                         {budget - 1000, budget + 1000} } }

\* the contents the upstream may deliver: a text, possibly ending in a
\* Sources section
Contents ==
    { body \o section :
        body \in ShortBodies,
        section \in {<<>>} \cup { SectionOf(ids) : ids \in IdLists } }
    \cup { body \o section :
             body \in LongBodies,
             section \in {<<>>, SectionOf(<< <<"x">>, <<"y">> >>)} }

\* the HTTP statuses of the model's error answers
ErrorStatuses == {400, 401, 402, 403, 404, 429, 500, 503}

\* the results fetchContextFromNia returns
FetchResults ==
    { StatusResult(status) : status \in ErrorStatuses }
    \cup { Exhausted(maxRetries, maxTimeoutRetries, <<FetchFailed>>), InvalidFormatResult }
    \cup { ContentResult(content, ExtractSources(content)) : content \in Contents }

InitFormat ==
    \E query \in Queries, r \in FetchResults :
        /\ pc = "returned"
        /\ retryCount = 0
        /\ timeoutRetryCount = 0
        /\ lastError = <<>>
        /\ response = <<>>
        /\ timeoutId = "cleared"
        /\ result = <<r>>
        /\ attempts = 1
        /\ waits = <<>>
        /\ hpc = "racing"
        /\ user_query = query
        /\ outerTimer = "pending"
        /\ progressInterval = "active"
        /\ payloads = <<>>
        /\ wire = <<>>
        /\ debugMode \in BOOLEAN
        /\ stderr = <<>>
        /\ sent = EnhancedQuery(query)
        /\ globalApiKey = CHOOSE key \in ApiKeys : TRUE
        /\ request = <<Request(globalApiKey)>>
        /\ sseTransport = 0
        /\ connections = <<>>
        /\ reply = <<>>

\* the race resolves with the result of the fetch: the handler resumes
RaceResolves ==
    /\ hpc = "racing"
    /\ result /= <<>>
    /\ HandlerFormats(result[1])
    /\ UNCHANGED <<pc, retryCount, timeoutRetryCount, lastError, response, timeoutId,
                   result, attempts, waits, user_query, outerTimer, wire, debugMode,
                   globalApiKey, serverVars, sent, request>>

\* the tool is invoked again with the same query, by this process or by one
\* started with the debug option d, and the fetch returns the same result
SameAgain(d) ==
    /\ hpc = "returned"
    /\ Len(payloads) < MaxRuns
    /\ hpc' = "racing"
    /\ progressInterval' = "active"
    /\ outerTimer' = "pending"
    /\ attempts' = attempts + 1
    /\ debugMode' = d
    /\ UNCHANGED <<globalApiKey, serverVars>>
    /\ UNCHANGED <<pc, retryCount, timeoutRetryCount, lastError, response, timeoutId,
                   result, waits, user_query, payloads, wire, stderr, sent, request>>

NextFormat ==
    \/ RaceResolves
    \/ \E d \in BOOLEAN : SameAgain(d)

SpecFormat == InitFormat /\ [][NextFormat]_vars

(***************************************************************************)
(* The enhancement of the query alone: the tool is invoked with a query of *)
(* at most MaxWords words.                                                 *)
(***************************************************************************)
MaxWords == 2

\* words with and without a trigger, in either case, and near misses
Words ==
    { <<"h","o","w">>, <<"H","o","W">>, <<"W","H","A","T">>, <<"R","e","p","o">>,
      <<"r","e","p","o","s","i","t","o","r","y">>, <<"s","h","o","w">>,
      <<"f","i","x">>, <<"r","e","p">>, <<"o">>, <<"w","h","a">>, <<"t">> }

QueryTexts ==
    { Join(ws, <<" ">>) : ws \in UNION { [1..k -> Words] : k \in 1..MaxWords } }

InvokeAny == \E query \in QueryTexts : Invoke(query)

NextQuery == InvokeAny

SpecQuery == Init /\ [][NextQuery]_vars

(***************************************************************************)
(* The claims on the formatter and on the enhancement of the query.        *)
(***************************************************************************)
\* the handler has returned the payload it formatted for the result
Formatted == hpc = "returned" /\ result /= <<>> /\ payloads /= <<>>

\* the payload returned last
LastPayload == payloads[Len(payloads)]

\* the first line of a context payload and the blank line after it
ContextLine == ContextHead \o user_query \o ContextTail

\* the payload returned last, after its first line and the blank line
AfterContextLine == SubSeq(LastPayload, Len(ContextLine) + 1, Len(LastPayload))

\* s ends with lit
EndsWith(s, lit) ==
    Len(s) >= Len(lit) /\ SubSeq(s, Len(s) - Len(lit) + 1, Len(s)) = lit

\* C11: for a result that carries a statusCode the payload is fixed by the
\* code alone: the authentication message for 401 and 403, the quota message
\* for 402, "Failed to retrieve context from Nia API: HTTP error <code>" for
\* any other code; for a result without statusCode the payload starts with
\* the line 'Context for "<query>":' and goes on with the body.
C11_PayloadByStatus ==
    Formatted =>
        LET r == result[1]
        IN  IF HasStatus(r)
            THEN LastPayload =
                    (IF r.statusCode \in {401, 403} THEN AuthMessage
                     ELSE IF r.statusCode = 402 THEN QuotaMessage
                     ELSE HttpErrorHead \o Digits(r.statusCode))
            ELSE /\ StartsWith(LastPayload, ContextLine)
                 /\ StartsWith(AfterContextLine,
                               SubSeq(r.content, 1,
                                      Min(Len(r.content), (3 * maxResponseLength) \div 4)))

\* C11 witness: a result with status 403 was formatted into the
\* authentication message.
C11_Witness ==
    /\ Formatted
    /\ HasStatus(result[1])
    /\ result[1].statusCode = 403
    /\ LastPayload = AuthMessage

\* one line per citation: "- <identifier>", the lines separated by line breaks
CitationLines(sources) ==
    Concat([i \in 1..Len(sources) |->
               (IF i = 1 THEN <<>> ELSE <<"\n">>) \o <<"-", " ">> \o sources[i]])

\* the (0-based) indices, at or before the budget, of the paragraph breaks
\* of content
BreaksWithinBudget(content) ==
    { b \in 0..Min(Len(content) - 2, maxResponseLength) :
        content[b + 1] = "\n" /\ content[b + 2] = "\n" }

\* the note that states the original length n
LengthNote(n) == TrimmedNoteHead \o Digits(n) \o TrimmedNoteTail

\* content is cut at its last paragraph break within the budget
CutAtBreak(content) ==
    /\ Len(content) > maxResponseLength
    /\ BreaksWithinBudget(content) /= {}
    /\ 4 * SetMax(BreaksWithinBudget(content)) > 3 * maxResponseLength

\* the body the claim describes for content
DescribedBody(content) ==
    IF Len(content) <= maxResponseLength THEN content
    ELSE IF CutAtBreak(content)
    THEN SubSeq(content, 1, SetMax(BreaksWithinBudget(content)))
         \o LengthNote(Len(content))
    ELSE SubSeq(content, 1, maxResponseLength) \o Ellipsis \o LengthNote(Len(content))

\* C12: the body of a context payload is the content unchanged when the
\* content has at most 10,000 characters; for a longer content it is the
\* prefix ending at the last paragraph break at or before 10,000 when that
\* break lies past 7,500, otherwise the first 10,000 characters and "...";
\* in both cases the note with the original length follows, and the kept
\* prefix has at most 10,000 characters.
C12_BodyWithinBudget ==
    (Formatted /\ ~HasStatus(result[1])) =>
        LET content == result[1].content
            body    == DescribedBody(content)
        IN  /\ StartsWith(AfterContextLine, body)
            /\ \/ Len(AfterContextLine) = Len(body)
               \/ SubSeq(AfterContextLine, Len(body) + 1,
                         Len(body) + Len(SourcesListHead)) = SourcesListHead
            /\ Len(content) > maxResponseLength
               => Len(AfterContextLine) - Len(LengthNote(Len(content)))
                    - (IF CutAtBreak(content) THEN 0 ELSE Len(Ellipsis))
                    - (IF result[1].sources = <<>> THEN 0
                       ELSE Len(SourcesListHead \o CitationLines(result[1].sources)))
                  <= maxResponseLength

\* C12 witness: a content of 12,000 characters with its last paragraph break
\* within the budget at 9,500 was formatted: the body is cut there and the
\* note cites 12,000.
C12_Witness ==
    /\ Formatted
    /\ ~HasStatus(result[1])
    /\ Len(result[1].content) = maxResponseLength + 2000
    /\ CutAtBreak(result[1].content)
    /\ SetMax(BreaksWithinBudget(result[1].content)) = maxResponseLength - 500
    /\ Len(AfterContextLine)
         = (maxResponseLength - 500) + Len(LengthNote(maxResponseLength + 2000))

\* C14: the payload of a result without statusCode ends with the section
\* "Sources:" holding the line "- <identifier>" of each citation in the
\* order of the list, duplicates kept, when the list is not empty; no such
\* section is appended when the list is absent or empty.
C14_SourcesSection ==
    (Formatted /\ ~HasStatus(result[1])) =>
        LET r == result[1]
        IN  IF HasSources(r) /\ r.sources /= <<>>
            THEN EndsWith(LastPayload, SourcesListHead \o CitationLines(r.sources))
            ELSE ~Includes(LastPayload, SourcesListHead)

\* C14 witness: a result citing the same identifier twice and another one
\* after it was formatted.
C14_Witness ==
    /\ Formatted
    /\ ~HasStatus(result[1])
    /\ result[1].sources = << <<"x">>, <<"x">>, <<"y">> >>
    /\ EndsWith(LastPayload, <<"-", " ", "x", "\n", "-", " ", "x", "\n", "-", " ", "y">>)

Capital(c) == UpperCase[CHOOSE k \in 1..Len(LowerCase) : LowerCase[k] = c]

\* query contains trigger, in any mix of cases
ContainsAnyCase(query, trigger) ==
    \E p \in 1..(Len(query) - Len(trigger) + 1) :
        \A j \in 1..Len(trigger) :
            query[p + j - 1] \in {trigger[j], Capital(trigger[j])}

\* C13: the user message of every request is the query followed by the
\* elaboration suffix when the query contains "repo", "repository", "what"
\* or "how" in any mix of cases, and the query itself otherwise.
C13_EnhancedQuery ==
    (sent /= <<>>) =>
        IF \E k \in 1..Len(Triggers) : ContainsAnyCase(user_query, Triggers[k])
        THEN sent = user_query \o ElaborationSuffix
        ELSE sent = user_query

\* C13 witness: a query with a trigger in capitals was sent with the suffix
\* (a query without trigger is sent verbatim in other behaviours).
C13_Witness ==
    /\ pc = "await_fetch"
    /\ user_query = <<"W","H","A","T"," ","f","i","x">>
    /\ sent = user_query \o ElaborationSuffix

(***************************************************************************)
(* The claims on the counters, the waits and the two timers.               *)
(***************************************************************************)
\* C16: in every state of a call retryCount is at most maxRetries and
\* timeoutRetryCount at most maxTimeoutRetries.
C16_CountersWithinBounds ==
    retryCount <= maxRetries /\ timeoutRetryCount <= maxTimeoutRetries

\* C17: an attempt after the first is issued only when a backoff wait has
\* elapsed; each wait is 1000 * timeoutRetryCount ms after a timeout-class
\* error and min(10000, 1000 * 2^retryCount) ms after a generic-class error,
\* the counters taken after the increment; the step that ends the call
\* starts no wait.
C17_BackoffBeforeRetry ==
    [][ /\ (attempts' = attempts + 1 /\ attempts >= 1) => pc = "await_backoff"
        /\ (waits' /= waits)
           => waits' = Append(waits,
                              IF timeoutRetryCount' > timeoutRetryCount
                              THEN 1000 * timeoutRetryCount'
                              ELSE Min(10000, 1000 * (2 ^ retryCount')))
        /\ (pc' = "returned") => waits' = waits ]_vars

\* the errors the attempts of the model throw
Errors == NetworkErrors \cup {AbortError, Terminated, BodyUnusable}

\* the step is the loop catching error
CaughtBy(error) ==
    \/ error \in NetworkErrors /\ FetchRejects(error)
    \/ error = AbortError /\ AbortTimerFires
    \/ error = Terminated /\ TextRejects
    \/ /\ error = BodyUnusable
       /\ JsonResolves \/ JsonRejects
       /\ retryCount' /= retryCount \/ timeoutRetryCount' /= timeoutRetryCount

\* error is named TimeoutError or AbortError, or its message contains
\* "timeout" or "abort"
TimeoutClass(error) ==
    \/ error.name \in {"TimeoutError", "AbortError"}
    \/ \E p \in 1..(Len(error.message) - 6) :
          SubSeq(error.message, p, p + 6) = <<"t","i","m","e","o","u","t">>
    \/ \E p \in 1..(Len(error.message) - 4) :
          SubSeq(error.message, p, p + 4) = <<"a","b","o","r","t">>

\* C18: the loop catching a timeout-class error adds one to
\* timeoutRetryCount and leaves retryCount and lastError as they are;
\* catching any other error adds one to retryCount, leaves
\* timeoutRetryCount as it is and stores the error in lastError; no other
\* step changes the counters or lastError.
C18_OneCounterPerError ==
    [][ /\ \A error \in Errors :
              CaughtBy(error)
              => IF TimeoutClass(error)
                 THEN /\ timeoutRetryCount' = timeoutRetryCount + 1
                      /\ retryCount' = retryCount
                      /\ lastError' = lastError
                 ELSE /\ retryCount' = retryCount + 1
                      /\ timeoutRetryCount' = timeoutRetryCount
                      /\ lastError' = <<error>>
        /\ (\/ retryCount' /= retryCount
            \/ timeoutRetryCount' /= timeoutRetryCount
            \/ lastError' /= lastError)
           => \E error \in Errors : CaughtBy(error) ]_vars

\* C18 witness: the loop has caught one generic-class error, stored in
\* lastError, and after it two timeout-class errors, one of them recognised
\* by its message alone.
C18_Witness ==
    /\ retryCount = 1
    /\ timeoutRetryCount = 2
    /\ lastError = <<FetchFailed>>
    /\ waits = <<2000, 1000, 2000>>
    /\ timeoutId = "cleared"
    /\ pc = "await_backoff"

\* C19: once the invocation has returned the payload of the outer deadline,
\* its fetch issues no further attempt and starts no further wait.
C19_LoserCancelled ==
    [][ (hpc = "returned" /\ outerTimer = "fired" /\ payloads = <<DeadlinePayload>>)
        => (attempts' = attempts /\ waits' = waits) ]_vars

\* C20: after an invocation has returned, its outer-deadline timer is not
\* pending.
C20_DeadlineTimerCleared ==
    hpc = "returned" => outerTimer /= "pending"

(***************************************************************************)
(* The claims on the abort timer and on the requests of the retries.       *)
(***************************************************************************)
\* C21: the abort timer of an attempt is not pending once the attempt has
\* ended, by a returned result, a status result, a thrown error or the abort
\* itself: a timer is pending only while the call awaits fetch(), so that at
\* most one is pending and none after the call has returned.
C21_AbortTimerCleared ==
    timeoutId = "pending" => pc = "await_fetch"

\* C21 witness: the second attempt was ended by its abort timer and the call
\* waits before the third.
C21_Witness ==
    /\ pc = "await_backoff"
    /\ attempts = 2
    /\ timeoutId = "fired"
    /\ timeoutRetryCount >= 1

\* C25: the abort timer of an attempt is armed for as long as the call reads
\* the body of the response.
C25_ArmedWhileReadingBody ==
    pc \in {"await_text", "await_json"} => timeoutId = "pending"

\* C26: every attempt after the first sends the request of the attempt
\* before it: the same user message, in which the elaboration suffix occurs
\* at most once, and the same credential, model, stream flag and max_tokens,
\* the credential being the key of the process.
C26_SameRequestEveryAttempt ==
    [][ (attempts >= 1 /\ attempts' = attempts + 1)
        => /\ sent' = sent
           /\ request' = request
           /\ Cardinality(Occurrences(sent', ElaborationSuffix)) <= 1
           /\ request'[1].authorization = <<"Bearer", globalApiKey>> ]_vars

\* C26 witness: the third attempt of a call whose query has a trigger sends
\* the query with one suffix and the key of the process.
C26_Witness ==
    /\ pc = "await_fetch"
    /\ attempts = 3
    /\ user_query = <<"h", "o", "w">>
    /\ sent = user_query \o ElaborationSuffix
    /\ request = <<Request("key-2")>>

(***************************************************************************)
(* The probing of the formats alone: a stream of at most MaxEvents events, *)
(* each an object with the three content fields, any of them empty, or a   *)
(* payload that is not JSON, read by a process without the debug option.   *)
(***************************************************************************)
\* the texts of the three fields
FragD == <<"d">>

FragM == <<"m">>

ProbeEvents ==
    { EventOfThree(delta, message, content) :
        delta \in {<<>>, FragD}, message \in {<<>>, FragM}, content \in {<<>>, FragC} }
    \cup { Event("malformed", <<>>) }

ProbeLists == UNION { [1..k -> ProbeEvents] : k \in 0..MaxEvents }

InitProbe ==
    \E query \in Queries, events \in ProbeLists :
        /\ pc = "await_text"
        /\ retryCount = 0
        /\ timeoutRetryCount = 0
        /\ lastError = <<>>
        /\ response = <<[status |-> 200, contentType |-> EventStreamType,
                         hasBody |-> TRUE, body |-> Serialize(events),
                         bodyUsed |-> TRUE]>>
        /\ timeoutId = "cleared"
        /\ result = <<>>
        /\ attempts = 1
        /\ waits = <<>>
        /\ hpc = "racing"
        /\ user_query = query
        /\ outerTimer = "pending"
        /\ progressInterval = "active"
        /\ payloads = <<>>
        /\ wire = events
        /\ debugMode = FALSE
        /\ stderr = <<>>
        /\ sent = EnhancedQuery(query)
        /\ globalApiKey = CHOOSE key \in ApiKeys : TRUE
        /\ request = <<Request(globalApiKey)>>
        /\ sseTransport = 0
        /\ connections = <<>>
        /\ reply = <<>>

NextProbe == TextResolves

SpecProbe == InitProbe /\ [][NextProbe]_vars

\* the one piece of text the claim gives an event: the delta content if
\* there is one, else the message content if there is one, else the
\* top-level content, nothing when the event has none or is not JSON
PieceOf(e) ==
    IF e.kind = "three"
    THEN IF e.delta /= <<>> THEN e.delta
         ELSE IF e.message /= <<>> THEN e.message
         ELSE e.content
    ELSE WireFragment(e)

\* C22: each event of the stream appends at most one piece of text to the
\* content, the delta content if found, else the complete-message content if
\* found, else the top-level content, and nothing when it has none: the
\* content returned is the concatenation of these pieces.
C22_OnePiecePerEvent ==
    (pc = "returned" /\ result /= <<>>)
    => result[1].content = Concat([i \in 1..Len(wire) |-> PieceOf(wire[i])])

\* C22 witness: a stream of an event with the three fields, one with the
\* message and the top-level content only and one with the top-level
\* content only was read into "dmc".
C22_Witness ==
    /\ pc = "returned"
    /\ wire = <<EventOfThree(FragD, FragM, FragC), EventOfThree(<<>>, FragM, FragC),
                EventOfThree(<<>>, <<>>, FragC)>>
    /\ result[1].content = FragD \o FragM \o FragC

(***************************************************************************)
(* The SSE server: the Express app of a process started with the sse       *)
(* transport.  A connection is the number of its GET /sse request among    *)
(* those accepted; the slot sseTransport holds a connection or 0 for null. *)
(* A reply records the path of the request, the status the app sent (0     *)
(* when the request was handed to the transport, which replies itself),    *)
(* the transport the request was handed to and the connection field of     *)
(* the health report.                                                      *)
(***************************************************************************)
\* Connections one process accepts in the model.
MaxConnections == 3

\* req.query.transportType: absent, or the value given
TransportTypes == {"absent", "sse", "stdio"}

Reply(path, status, handledBy, connection) ==
    [path |-> path, status |-> status, handledBy |-> handledBy,
     connection |-> connection]

\* GET /sse: the slot is emptied, then the transport type is validated, then
\* the transport of the new connection is created, stored in the slot and
\* connected, and the close listener is registered
GetSse(transportType) ==
    /\ transportType \in {"absent", "sse"} => Len(connections) < MaxConnections
    /\ IF transportType /= "absent" /\ transportType /= "sse"
       THEN /\ sseTransport' = 0
            /\ reply' = <<Reply("/sse", 400, 0, "")>>
            /\ UNCHANGED connections
       ELSE /\ connections' = Append(connections, "open")
            /\ sseTransport' = Len(connections) + 1
            /\ reply' = <<Reply("/sse", 200, 0, "")>>
    /\ UNCHANGED toolVars

\* req.on("close") of connection c: the client of c went away
ClientCloses(c) ==
    /\ c \in 1..Len(connections)
    /\ connections[c] = "open"
    /\ connections' = [connections EXCEPT ![c] = "closed"]
    /\ sseTransport' = 0
    /\ UNCHANGED <<reply, toolVars>>

\* POST /messages
PostMessages ==
    /\ reply' = IF sseTransport /= 0
                THEN <<Reply("/messages", 0, sseTransport, "")>>
                ELSE <<Reply("/messages", 400, 0, "")>>
    /\ UNCHANGED <<sseTransport, connections, toolVars>>

\* GET /health
GetHealth ==
    /\ reply' = <<Reply("/health", 200, 0,
                        IF sseTransport /= 0 THEN "established" ELSE "none")>>
    /\ UNCHANGED <<sseTransport, connections, toolVars>>

NextSse ==
    \/ \E transportType \in TransportTypes : GetSse(transportType)
    \/ \E c \in 1..MaxConnections : ClientCloses(c)
    \/ PostMessages
    \/ GetHealth

SpecSse == Init /\ [][NextSse]_vars

\* the connection established last is open
NewestOpen == connections /= <<>> /\ connections[Len(connections)] = "open"

\* C23: while the connection established last is open the slot holds it: a
\* POST /messages is handed to its transport and not answered 400, and
\* /health reports "established".
C23_NewestConnectionRegistered ==
    NewestOpen
    => /\ sseTransport = Len(connections)
       /\ (reply /= <<>> /\ reply[1].path = "/messages")
          => (reply[1].status /= 400 /\ reply[1].handledBy = Len(connections))
       /\ (reply /= <<>> /\ reply[1].path = "/health")
          => reply[1].connection = "established"

\* C24: a GET /sse answered 400 for its transport type leaves the slot and
\* the connections as they were.
C24_RejectedRequestChangesNothing ==
    [][ ((\E transportType \in TransportTypes : GetSse(transportType))
         /\ reply'[1].status = 400)
        => (sseTransport' = sseTransport /\ connections' = connections) ]_vars

====
